---- MODULE Spec2Model ----
(***************************************************************************)
(* Model of app/main.py: the two-tier cache middleware                     *)
(* (redis_cache_middleware), the pub/sub subscriber (redis_subscriber),    *)
(* the key derivation (make_cache_key) and the item handlers               *)
(* (create_item, get_items, get_item), run by several server processes     *)
(* that share one Redis store and one Redis channel.                       *)
(***************************************************************************)
EXTENDS Integers, Sequences, FiniteSets, TLC

\* ------------------------------------------------------------------ bounds
\* Requests issued over a run, summed over the processes.
MaxRequests == 3
\* Messages published on the channel over a run.
MaxEvents == 2
\* Pairs in a query string.
MaxQuery == 2

\* ------------------------------------------------------- the fixed universe
\* Server processes (each has its own redis_cache, db and subscriber task).
Procs == {"p1", "p2"}
\* Request tasks a process can run at a time.
Slots == {1, 2}
\* Item names a POST body can carry.
ItemNames == {"A", "B"}

\* Python's None (also what redis get returns for a missing or expired key,
\* and what dict.get returns for a missing field).
None == [py |-> "None"]
\* The body part of a key when the body is left out of it.
NoBody == "NoBody"

\* ------------------------------------------------------------ JSON, bodies
\* json.dumps(x): the text of a JSON document; json.loads raises on any text
\* that is not one.  Garbage is a text that is no JSON document.
Garbage == [garbage |-> "not-json"]
json_dumps(x) == [json |-> x]
IsJson(text) == DOMAIN text = {"json"}
json_loads(text) == text.json
\* b"": the body of a response whose body_iterator has been consumed.
EmptyBody == [empty |-> ""]

\* ------------------------------------------------------------ make_cache_key
\* Names and values a query string can carry, and the order of Python's str
\* on them.
QueryNames == {"a", "b"}
QueryValues == {"1", "2"}
Ord == [x \in QueryNames \cup QueryValues |-> IF x \in {"a", "1"} THEN 1 ELSE 2]

\* (name, value) pairs compared as Python compares tuples.
PairLeq(a, b) == Ord[a[1]] < Ord[b[1]] \/ (a[1] = b[1] /\ Ord[a[2]] <= Ord[b[2]])

\* request.query_params.items(): the pairs of the query string put into a
\* dict one after the other, so a name given more than once keeps the place
\* of its first pair and the value of its last.
RECURSIVE query_params_items(_)
query_params_items(query) ==
    IF query = <<>> THEN <<>>
    ELSE LET pair == query[Len(query)]
             items == query_params_items(SubSeq(query, 1, Len(query) - 1))
         IN IF \E i \in 1..Len(items) : items[i][1] = pair[1]
            THEN [i \in 1..Len(items) |-> IF items[i][1] = pair[1] THEN pair ELSE items[i]]
            ELSE Append(items, pair)

RECURSIVE Insert(_, _)
Insert(x, s) ==
    IF s = <<>> THEN <<x>>
    ELSE IF PairLeq(x, Head(s)) THEN <<x>> \o s
    ELSE <<Head(s)>> \o Insert(x, Tail(s))

\* sorted(...) of a sequence of pairs.
RECURSIVE sorted(_)
sorted(s) == IF s = <<>> THEN <<>> ELSE Insert(Head(s), sorted(Tail(s)))

\* asyncio.run(request.body()) raises RuntimeError when an event loop is
\* already running, which is the case inside the middleware; the except
\* clause then leaves the body out of the key.
BodyRead(request, in_loop) ==
    IF in_loop THEN NoBody ELSE request.body

\* sha256 of the sorted-key JSON text is taken as injective: the key is the
\* hashed document itself.
make_cache_key(request, in_loop) ==
    [method |-> request.method,
     url    |-> request.path,
     query  |-> sorted(query_params_items(request.query)),
     body   |-> IF request.method \in {"POST", "PUT", "PATCH"}
                THEN BodyRead(request, in_loop)
                ELSE NoBody]

\* ------------------------------------------------------------ requests
GetItems == [method |-> "GET", path |-> "/items/", query |-> <<>>, body |-> ""]
GetItem1 == [method |-> "GET", path |-> "/items/1", query |-> <<>>, body |-> ""]
PostItem(n) == [method |-> "POST", path |-> "/items/", query |-> <<>>, body |-> n]

Requests == {GetItems, GetItem1} \cup {PostItem(n) : n \in ItemNames}

\* Requests that differ in method, path, query string and body, for the key
\* derivation on its own.
Queries == UNION {[1..n -> QueryNames \X QueryValues] : n \in 0..MaxQuery}
KeyRequests ==
    [method : {"GET", "POST"}, path : {"/items/", "/items/1"}, query : Queries,
     body : ItemNames]

\* Keys of the requests, as the middleware derives them.
CacheKeys == {make_cache_key(r, TRUE) : r \in Requests}

\* ------------------------------------------------------------ state
VARIABLES
    scenario,       \* the deployment and load explored (fixed over a run)
    has_limiter,    \* _has_limiter: the optional imports succeeded
    redis_cache,    \* redis_cache[p]: the in-memory cache of process p
    redis,          \* the shared Redis store: key -> text, None when not set
    db,             \* db[p]: id -> item name
    next_item_id,   \* next_item_id[p]
    task,           \* task[p][s]: a request task of process p
    last,           \* last[p]: the request p completed last and its outcome
    sub,            \* sub[p]: state of the redis_subscriber task
    inbox,          \* inbox[p]: messages pubsub.listen() has yet to yield
    issued,         \* requests issued so far
    published,      \* messages published so far
    derived,        \* two requests and the keys line 79 derived for them
    \* History, read by the properties only:
    fresh,          \* fresh[p]: key -> the entry the middleware wrote last into
                    \*   redis_cache[p], while no event for the key was applied since
    missed,         \* missed[p]: key -> the entry of the last completed full miss,
                    \*   while no evict for the key was applied since
    applied,        \* applied[p]: the event applied last and how often in a row
    stale           \* stale[p]: the tasks that hold a handler response not yet
                    \*   stored, for whose key an evict was applied since

vars == <<derived, scenario, has_limiter, redis_cache, redis, db, next_item_id, task, last, sub, inbox,
          issued, published, fresh, missed, applied, stale>>

history == <<fresh, missed, applied, stale>>

Idle == [pc |-> "idle"]
NoOutcome == [source |-> "none"]
NoEvent == [text |-> None, times |-> 0]

\* A dict as a function over the keys it holds.
EmptyDict == [x \in {} |-> None]
Has(d, k) == k \in DOMAIN d
Put(d, k, v) == [x \in (DOMAIN d) \cup {k} |-> IF x = k THEN v ELSE d[x]]
Pop(d, k) == [x \in (DOMAIN d) \ {k} |-> d[x]]

\* The runs explored: which processes run, how many requests a process
\* serves at a time, how many requests and channel messages a run sees,
\* which requests the clients send, and whether another program corrupts
\* entries of the Redis store.  One process is explored with one
\* request at a time (trading a request for channel messages) and with two
\* concurrent requests, and once more next to a program that corrupts the
\* Redis store; two processes (SpecPeers) with one request at a time each,
\* once without channel traffic and once with it.
Scenarios ==
    {[running |-> {"p1"}, width |-> 1, requests |-> MaxRequests, events |-> MaxEvents - 2,
      sends |-> Requests, corrupt |-> FALSE],
     [running |-> {"p1"}, width |-> 1, requests |-> MaxRequests - 1, events |-> MaxEvents,
      sends |-> {GetItems, GetItem1, PostItem("A")}, corrupt |-> FALSE],
     [running |-> {"p1"}, width |-> 2, requests |-> MaxRequests - 1, events |-> MaxEvents - 2,
      sends |-> Requests, corrupt |-> FALSE],
     [running |-> {"p1"}, width |-> 1, requests |-> MaxRequests - 1, events |-> MaxEvents - 2,
      sends |-> Requests, corrupt |-> TRUE]}

PeerScenarios ==
    {[running |-> Procs, width |-> 1, requests |-> MaxRequests, events |-> 0,
      sends |-> {GetItems, PostItem("A")}, corrupt |-> FALSE],
     [running |-> Procs, width |-> 1, requests |-> MaxRequests - 2, events |-> MaxEvents - 1,
      sends |-> {GetItems}, corrupt |-> TRUE]}

SlotsOf(p) == 1..scenario.width

InitState ==
    /\ has_limiter \in BOOLEAN
    /\ redis_cache = [p \in Procs |-> EmptyDict]
    /\ redis = [k \in CacheKeys |-> None]
    /\ db = [p \in Procs |-> EmptyDict]
    /\ next_item_id = [p \in Procs |-> 1]
    /\ task = [p \in Procs |-> [s \in Slots |-> Idle]]
    /\ last = [p \in Procs |-> NoOutcome]
    /\ sub = [p \in Procs |-> "created"]
    /\ inbox = [p \in Procs |-> <<>>]
    /\ issued = 0
    /\ published = 0
    /\ fresh = [p \in Procs |-> EmptyDict]
    /\ missed = [p \in Procs |-> EmptyDict]
    /\ applied = [p \in Procs |-> NoEvent]
    /\ stale = [p \in Procs |-> {}]

\* No request has had its key derived on its own.
NoDerivation == [requests |-> <<GetItems, GetItems>>, keys |-> <<None, None>>]

Init == InitState /\ scenario \in Scenarios /\ derived = NoDerivation

InitPeers == InitState /\ scenario \in PeerScenarios /\ derived = NoDerivation

\* Two requests, any two, arrive at a process that serves nothing else.
KeyScenario == [running |-> {}, width |-> 1, requests |-> 0, events |-> 0, sends |-> {},
                corrupt |-> FALSE]

InitKeys ==
    /\ InitState
    /\ has_limiter
    /\ scenario = KeyScenario
    /\ derived \in [requests : KeyRequests \X KeyRequests, keys : {<<None, None>>}]

\* ------------------------------------------------------------ the handlers
RECURSIVE Values(_)
\* list(d.values()) of a dict keyed by integers, in insertion order (ids are
\* handed out in increasing order, so insertion order is id order).
Values(d) ==
    IF DOMAIN d = {} THEN <<>>
    ELSE LET m == CHOOSE i \in DOMAIN d : \A j \in DOMAIN d : i <= j
         IN <<d[m]>> \o Values(Pop(d, m))

Reply(status, payload) == [status_code |-> status, body |-> json_dumps(payload)]

\* get_items: the list of all items and their count.
get_items(d) == Reply(200, [items |-> Values(d), count |-> Cardinality(DOMAIN d)])

\* get_item: the item stored under item_id, or 404.
get_item(d, item_id) ==
    IF item_id \notin DOMAIN d
    THEN Reply(404, [detail |-> "Item not found"])
    ELSE Reply(200, [name |-> d[item_id]])

\* Line 180 finding no duplicate, whatever db holds.
create_item_accepts_all(d, name) == FALSE

\* create_item: 400 on a duplicate name, else store under next_item_id.
create_item_rejects(d, name) == \E i \in DOMAIN d : d[i] = name

\* create_item without the increment of line 189.
create_item_keeps_id(d, nid, name) ==
    IF create_item_rejects(d, name)
    THEN [db |-> d, next_item_id |-> nid,
          response |-> Reply(400, [detail |-> <<"already exists", name>>])]
    ELSE [db |-> Put(d, nid, name), next_item_id |-> nid,
          response |-> Reply(201, [item_id |-> nid, item |-> [name |-> name],
                                   message |-> "Item created successfully"])]

create_item(d, nid, name) ==
    IF create_item_rejects(d, name)
    THEN [db |-> d, next_item_id |-> nid,
          response |-> Reply(400, [detail |-> <<"already exists", name>>])]
    ELSE [db |-> Put(d, nid, name), next_item_id |-> nid + 1,
          response |-> Reply(201, [item_id |-> nid, item |-> [name |-> name],
                                   message |-> "Item created successfully"])]

\* The route the request is dispatched to: the handler's result as
\* [db, next_item_id, response].  (The RateLimiter dependency of the POST
\* route, line 156, belongs to fastapi_limiter and is not part of the model:
\* a request it turns away does not reach create_item.)
Dispatch(d, nid, request) ==
    IF request.method = "POST" /\ request.path = "/items/"
    THEN create_item(d, nid, request.body)
    ELSE [db |-> d, next_item_id |-> nid,
          response |-> IF request.path = "/items/" THEN get_items(d)
                       ELSE get_item(d, 1)]

\* ------------------------------------------------------------ the middleware
\* JSONResponse(content=entry["data"], status_code=entry["status_code"]).
JSONResponse(entry) == [status_code |-> entry.status_code, body |-> json_dumps(entry.data)]

\* What reaches the caller when an exception escapes the middleware:
\* custom_exception_handler's 500.
ServerError == Reply(500, [detail |-> "Internal server error. Please contact support."])

\* A subscriptable envelope: entry["data"] and entry["status_code"] succeed.
IsEnvelope(entry) == {"data", "status_code"} \subseteq DOMAIN entry

\* Line 95 without its status test.
IsCacheableAnyStatus(method, status_code) ==
    method \in {"GET", "HEAD", "OPTIONS"}

\* Line 95.
IsCacheable(method, status_code) ==
    method \in {"GET", "HEAD", "OPTIONS"} /\ status_code = 200

KeyOf(request) == make_cache_key(request, TRUE)

\* The lookup of line 81 never finding the key.
InMemoryNever(cache, k) == FALSE

\* Line 81: cache_key in redis_cache.
InMemory(cache, k) == Has(cache, k)

\* The lowest free task slot of p (slots are interchangeable).
FreeSlot(p, s) ==
    /\ task[p][s].pc = "idle"
    /\ \A s2 \in SlotsOf(p) : task[p][s2].pc = "idle" => s <= s2

SetTask(p, s, t) == task' = [task EXCEPT ![p][s] = t]

\* The request of task s of p ends: `out` goes to the caller.  `source` is
\* where `out` came from, `response` what call_next returned (None when the
\* handler was not invoked).
Complete(p, s, request, source, response, out) ==
    /\ SetTask(p, s, Idle)
    /\ last' = [last EXCEPT ![p] = [request |-> request, source |-> source,
                                    response |-> response, out |-> out]]

\* A request arrives.  Lines 77-85 run without suspending: the bypass
\* without the optional imports, the key, and the in-memory lookup; on a miss
\* the task suspends in redis_cli.get.
MwLookup(p, s, r) ==
    LET k == KeyOf(r)
    IN /\ FreeSlot(p, s)
       /\ issued < scenario.requests
       /\ issued' = issued + 1
       /\ IF ~has_limiter
          THEN /\ SetTask(p, s, [pc |-> "call_next", request |-> r, bypass |-> TRUE])
               /\ UNCHANGED last
          ELSE IF InMemory(redis_cache[p], k)
          THEN IF IsEnvelope(redis_cache[p][k])
               THEN Complete(p, s, r, "memory", None, JSONResponse(redis_cache[p][k]))
               ELSE Complete(p, s, r, "error", None, ServerError)
          ELSE /\ SetTask(p, s, [pc |-> "redis_get", request |-> r])
               /\ UNCHANGED last
       /\ UNCHANGED <<derived, scenario, has_limiter, redis_cache, redis, db, next_item_id, sub, inbox,
                      published, history>>

\* Line 90 left out.
MirrorNothing(cache, k, cached_data) == cache

\* Line 90: redis_cache[cache_key] = cached_data.
Mirror(cache, k, cached_data) == Put(cache, k, cached_data)

\* Lines 86-93: await redis_cli.get answers; a hit is mirrored in memory and
\* returned, a miss suspends in call_next.
MwRedisGet(p, s) ==
    LET t == task[p][s]
        k == KeyOf(t.request)
        cached == redis[k]
    IN /\ t.pc = "redis_get"
       /\ IF cached = None
          THEN /\ SetTask(p, s, [pc |-> "call_next", request |-> t.request, bypass |-> FALSE])
               /\ UNCHANGED <<redis_cache, last, history>>
          ELSE IF ~IsJson(cached)
          THEN /\ Complete(p, s, t.request, "error", None, ServerError)
               /\ UNCHANGED <<redis_cache, history>>
          ELSE /\ redis_cache' = [redis_cache EXCEPT ![p] = Mirror(@, k, json_loads(cached))]
               /\ fresh' = [fresh EXCEPT ![p] = Put(@, k, json_loads(cached))]
               /\ applied' = [applied EXCEPT ![p] = NoEvent]
               /\ UNCHANGED <<missed, stale>>
               /\ Complete(p, s, t.request, "redis", None, JSONResponse(json_loads(cached)))
       /\ UNCHANGED <<derived, scenario, has_limiter, redis, db, next_item_id, sub, inbox, issued, published>>

\* Line 86: await redis_cli.get raises (the store is unreachable); nothing
\* catches it.
MwRedisGetFails(p, s) ==
    LET t == task[p][s]
    IN /\ t.pc = "redis_get"
       /\ Complete(p, s, t.request, "error", None, ServerError)
       /\ UNCHANGED <<derived, scenario, has_limiter, redis_cache, redis, db, next_item_id, sub, inbox,
                      issued, published, history>>

\* Lines 78 and 93: await call_next(request) runs the route handler.
MwCallNext(p, s) ==
    LET t == task[p][s]
        h == Dispatch(db[p], next_item_id[p], t.request)
    IN /\ t.pc = "call_next"
       /\ db' = [db EXCEPT ![p] = h.db]
       /\ next_item_id' = [next_item_id EXCEPT ![p] = h.next_item_id]
       /\ IF t.bypass
          THEN Complete(p, s, t.request, "handler", h.response, h.response)
          ELSE /\ SetTask(p, s, [pc |-> "got_response", request |-> t.request,
                                 response |-> h.response])
               /\ UNCHANGED last
       /\ UNCHANGED <<derived, scenario, has_limiter, redis_cache, redis, sub, inbox, issued, published, history>>

\* Line 93 raising, with lines 103-104 run for the error all the same.
MwCallNextFailsCached(p, s) ==
    LET t == task[p][s]
    IN /\ t.pc = "call_next"
       /\ redis_cache' = [redis_cache EXCEPT ![p] =
                             Put(@, KeyOf(t.request), [data |-> None, status_code |-> 500])]
       /\ Complete(p, s, t.request, "raised", None, ServerError)
       /\ UNCHANGED <<derived, scenario, has_limiter, redis, db, next_item_id, sub, inbox,
                      issued, published, history>>

\* Lines 78 and 93: await call_next(request) raises (the route or one of its
\* dependencies raises something that is no HTTPException, or the request is
\* cancelled while it waits).  Nothing in the middleware catches: the rest of
\* the middleware is skipped and the caller gets what custom_exception_handler
\* makes of the exception.
MwCallNextFails(p, s) ==
    LET t == task[p][s]
    IN /\ t.pc = "call_next"
       /\ Complete(p, s, t.request, "raised", None, ServerError)
       /\ UNCHANGED <<derived, scenario, has_limiter, redis_cache, redis, db, next_item_id, sub,
                      inbox, issued, published, history>>

\* Lines 96-103: the body read off response.body_iterator, as the envelope.
CacheEntryOf(response) ==
    [data |-> IF IsJson(response.body) THEN json_loads(response.body) ELSE response.body,
     status_code |-> response.status_code]

\* Lines 95-104 and 106: a cacheable response is read off its body iterator
\* and stored in memory, and the task suspends in redis_cli.set; any other
\* response is returned as it is.
MwStore(p, s) ==
    LET t == task[p][s]
        k == KeyOf(t.request)
    IN /\ t.pc = "got_response"
       /\ stale' = [stale EXCEPT ![p] = @ \ {s}]
       /\ IF IsCacheable(t.request.method, t.response.status_code)
          THEN /\ redis_cache' = [redis_cache EXCEPT ![p] = Put(@, k, CacheEntryOf(t.response))]
               /\ SetTask(p, s, [pc |-> "redis_set", request |-> t.request,
                                 response |-> t.response])
               /\ fresh' = [fresh EXCEPT ![p] = Put(@, k, CacheEntryOf(t.response))]
               /\ applied' = [applied EXCEPT ![p] = NoEvent]
               /\ UNCHANGED <<last, missed>>
          ELSE /\ Complete(p, s, t.request, "handler", t.response, t.response)
               /\ UNCHANGED <<redis_cache, fresh, missed, applied>>
       /\ UNCHANGED <<derived, scenario, has_limiter, redis, db, next_item_id, sub, inbox, issued, published>>

\* The response object the middleware returns at line 106 after lines 96-98
\* have consumed its body iterator.
Returned(response) == [status_code |-> response.status_code, body |-> EmptyBody]

\* Lines 105-106: await redis_cli.set succeeds, the response is returned.
MwRedisSet(p, s) ==
    LET t == task[p][s]
        k == KeyOf(t.request)
    IN /\ t.pc = "redis_set"
       /\ redis' = [redis EXCEPT ![k] = json_dumps(CacheEntryOf(t.response))]
       /\ Complete(p, s, t.request, "handler", t.response, Returned(t.response))
       /\ missed' = [missed EXCEPT ![p] =
                        IF Has(fresh[p], k) /\ fresh[p][k] = CacheEntryOf(t.response)
                        THEN Put(@, k, CacheEntryOf(t.response)) ELSE @]
       /\ UNCHANGED <<fresh, applied, stale>>
       /\ UNCHANGED <<derived, scenario, has_limiter, redis_cache, db, next_item_id, sub, inbox, issued, published>>

\* Line 105: await redis_cli.set raises; nothing catches it.
MwRedisSetFails(p, s) ==
    LET t == task[p][s]
    IN /\ t.pc = "redis_set"
       /\ Complete(p, s, t.request, "error", t.response, ServerError)
       /\ UNCHANGED <<derived, scenario, has_limiter, redis_cache, redis, db, next_item_id, sub, inbox,
                      issued, published, history>>

\* An expiry that takes the entry out of every redis_cache as well.
ExpireEverywhere(k) ==
    /\ redis[k] # None
    /\ redis' = [redis EXCEPT ![k] = None]
    /\ redis_cache' = [p \in Procs |-> IF Has(redis_cache[p], k) THEN Pop(redis_cache[p], k)
                                       ELSE redis_cache[p]]
    /\ UNCHANGED <<derived, scenario, has_limiter, db, next_item_id, task, last, sub, inbox,
                   issued, published, history>>

\* The store discards an entry whose 60 seconds have passed.
Expire(k) ==
    /\ redis[k] # None
    /\ redis' = [redis EXCEPT ![k] = None]
    /\ UNCHANGED <<derived, scenario, has_limiter, redis_cache, db, next_item_id, task, last, sub, inbox,
                   issued, published, history>>

\* Another program that uses the same Redis database stores a text that is
\* no JSON document under a key of the cache.
Corrupt(k) ==
    /\ has_limiter
    /\ scenario.corrupt
    /\ redis[k] # Garbage
    /\ redis' = [redis EXCEPT ![k] = Garbage]
    /\ UNCHANGED <<derived, scenario, has_limiter, redis_cache, db, next_item_id, task, last, sub,
                   inbox, issued, published, history>>

\* ------------------------------------------------------------ the channel
\* Texts published on REDIS_CHANNEL.  Nothing in app/main.py publishes: the
\* events come from other programs that share the channel.
EvictEvent(k) == json_dumps([action |-> "evict", key |-> k])
AddEvent(k, v) == json_dumps([action |-> "add", key |-> k, value |-> v])
AddEventNoValue(k) == json_dumps([action |-> "add", key |-> k])

\* An envelope that no handler of this program produces.
ForeignEntry == [data |-> [foreign |-> "payload"], status_code |-> 200]

EventKeys == {make_cache_key(GetItems, TRUE)}

Publishable ==
    {EvictEvent(k) : k \in EventKeys}
    \cup {AddEvent(k, ForeignEntry) : k \in EventKeys}
    \cup {AddEventNoValue(make_cache_key(GetItems, TRUE)), Garbage}

\* What pubsub.listen() yields for a published text.  (The subscribe
\* confirmation it yields first has type "subscribe" and is skipped by line
\* 117.)
Message(text) == [type |-> "message", data |-> text]

\* event.get(field)
Get(event, field) == IF field \in DOMAIN event THEN event[field] ELSE None

\* Lines 119-126 with the evict branch never taken.
ApplyEventAddOnly(cache, event) ==
    IF Get(event, "action") = "add" /\ Get(event, "key") # None
    THEN Put(cache, Get(event, "key"), Get(event, "value"))
    ELSE cache

\* Lines 119-126 with an evict that empties redis_cache.
ApplyEventEvictClears(cache, event) ==
    IF Get(event, "action") = "evict" /\ Has(cache, Get(event, "key")) THEN EmptyDict
    ELSE IF Get(event, "action") = "add" /\ Get(event, "key") # None
    THEN Put(cache, Get(event, "key"), Get(event, "value"))
    ELSE cache

\* Lines 119-126: the effect of one decoded event on redis_cache.
ApplyEvent(cache, event) ==
    LET action == Get(event, "action")
        key == Get(event, "key")
    IN IF action = "evict" /\ Has(cache, key) THEN Pop(cache, key)
       ELSE IF action = "add" /\ key # None THEN Put(cache, key, Get(event, "value"))
       ELSE cache

\* Lines 112-117: the task subscribes and skips the confirmation.  Without
\* the optional imports the task returns at once (lines 110-111, 130).
SubStart(p) ==
    /\ sub[p] = "created"
    /\ sub' = [sub EXCEPT ![p] = IF has_limiter THEN "listening" ELSE "returned"]
    /\ UNCHANGED <<derived, scenario, has_limiter, redis_cache, redis, db, next_item_id, task, last,
                   inbox, issued, published, history>>

\* Lines 116-126: one message off pubsub.listen().  json.loads raising ends
\* the task: nothing in redis_subscriber catches.
SubStep(p) ==
    /\ sub[p] = "listening"
    /\ inbox[p] # <<>>
    /\ LET message == Head(inbox[p])
           event == json_loads(message.data)
       IN IF ~IsJson(message.data)
          THEN /\ sub' = [sub EXCEPT ![p] = "crashed"]
               /\ inbox' = [inbox EXCEPT ![p] = <<>>]
               /\ UNCHANGED <<redis_cache, history>>
          ELSE /\ redis_cache' = [redis_cache EXCEPT ![p] = ApplyEvent(@, event)]
               /\ inbox' = [inbox EXCEPT ![p] = Tail(@)]
               /\ fresh' = [fresh EXCEPT ![p] = Pop(@, Get(event, "key"))]
               /\ missed' = [missed EXCEPT ![p] =
                               IF Get(event, "action") = "evict"
                               THEN Pop(@, Get(event, "key")) ELSE @]
               /\ applied' = [applied EXCEPT ![p] =
                                [text |-> message.data,
                                 times |-> IF @.text = message.data THEN 2 ELSE 1]]
               /\ stale' = [stale EXCEPT ![p] =
                              IF Get(event, "action") = "evict"
                              THEN @ \cup {s \in Slots :
                                               /\ task[p][s].pc = "got_response"
                                               /\ KeyOf(task[p][s].request) = Get(event, "key")}
                              ELSE @]
               /\ UNCHANGED sub
    /\ UNCHANGED <<derived, scenario, has_limiter, redis, db, next_item_id, task, last, issued, published>>

\* The connection under pubsub drops: listen (line 116) raises, and the
\* task ends with the exception.
ConnectionDrop(p) ==
    /\ has_limiter
    /\ sub[p] = "listening"
    /\ sub' = [sub EXCEPT ![p] = "disconnected"]
    /\ inbox' = [inbox EXCEPT ![p] = <<>>]
    /\ UNCHANGED <<derived, scenario, has_limiter, redis_cache, redis, db, next_item_id, task, last, issued, published, history>>

\* Another program publishes a text; the channel hands it to every
\* subscription that is open at that moment.
Publish(text) ==
    /\ has_limiter
    /\ published < scenario.events
    /\ published' = published + 1
    /\ inbox' = [p \in Procs |-> IF sub[p] = "listening"
                                 THEN Append(inbox[p], Message(text))
                                 ELSE inbox[p]]
    /\ UNCHANGED <<derived, scenario, has_limiter, redis_cache, redis, db, next_item_id, task, last, sub, issued, history>>

\* Line 79 for the i-th of the two requests: the middleware derives its key.
MwDeriveKey(i) ==
    /\ derived.keys[i] = None
    /\ derived' = [derived EXCEPT !.keys[i] = make_cache_key(derived.requests[i], TRUE)]
    /\ UNCHANGED <<scenario, has_limiter, redis_cache, redis, db, next_item_id, task, last, sub,
                   inbox, issued, published, history>>

\* ------------------------------------------------------------ specification
Next ==
    \/ \E p \in scenario.running : \E s \in SlotsOf(p), r \in scenario.sends : MwLookup(p, s, r)
    \/ \E p \in scenario.running : \E s \in SlotsOf(p) : MwRedisGet(p, s)
    \/ \E p \in scenario.running : \E s \in SlotsOf(p) : MwRedisGetFails(p, s)
    \/ \E p \in scenario.running : \E s \in SlotsOf(p) : MwCallNext(p, s)
    \/ \E p \in scenario.running : \E s \in SlotsOf(p) : MwCallNextFails(p, s)
    \/ \E p \in scenario.running : \E s \in SlotsOf(p) : MwStore(p, s)
    \/ \E p \in scenario.running : \E s \in SlotsOf(p) : MwRedisSet(p, s)
    \/ \E p \in scenario.running : \E s \in SlotsOf(p) : MwRedisSetFails(p, s)
    \/ \E k \in CacheKeys : Expire(k)
    \/ \E k \in EventKeys : Corrupt(k)
    \/ \E p \in scenario.running : SubStart(p)
    \/ \E p \in scenario.running : SubStep(p)
    \/ \E p \in scenario.running : ConnectionDrop(p)
    \/ \E text \in Publishable : Publish(text)

Spec == Init /\ [][Next]_vars

SpecPeers == InitPeers /\ [][Next]_vars

NextKeys == \E i \in {1, 2} : MwDeriveKey(i)

SpecKeys == InitKeys /\ [][NextKeys]_vars

\* ------------------------------------------------------------ properties
CacheableMethods == {"GET", "HEAD", "OPTIONS"}
ItemsKey == KeyOf(GetItems)
Item1Key == KeyOf(GetItem1)

\* The outcome of a request answered from redis_cache with `entry`.
FromMemory(r, entry) ==
    [request |-> r, source |-> "memory", response |-> None,
     out |-> [status_code |-> entry.status_code, body |-> [json |-> entry.data]]]

\* C1 (as amended): once the middleware has stored a response for a key in
\* redis_cache (a full miss with status 200, or a distributed hit), a GET for
\* that key that arrives before any evict or add event for the key is applied
\* is answered at once from redis_cache with the payload and status stored
\* last, and no handler runs for it.
C1_SecondGetFromMemory ==
    [][\A p \in Procs, s \in Slots, r \in Requests :
         (r.method = "GET" /\ Has(fresh[p], KeyOf(r)) /\ MwLookup(p, s, r))
         => /\ task'[p][s] = Idle
            /\ last'[p] = FromMemory(r, fresh[p][KeyOf(r)])
            /\ UNCHANGED <<db, next_item_id, redis_cache, redis>>]_vars

\* C1 witness: a GET /items/ that missed both tiers completed, and a later
\* GET /items/ was answered from memory with that payload.
C1_Witness ==
    \E p \in Procs :
        /\ Has(missed[p], ItemsKey) /\ Has(fresh[p], ItemsKey)
        /\ last[p] = FromMemory(GetItems, missed[p][ItemsKey])

\* C1 (as claimed): after a GET that missed both tiers has completed with
\* status 200, a GET for the same key arriving before any evict event for the
\* key is applied is answered from redis_cache with that GET's payload and
\* status, without a handler run.  (Stated for the runs in which every entry
\* of redis_cache is an envelope, so that no lookup raises.)
C1_AsClaimed ==
    [][\A p \in Procs, s \in Slots, r \in Requests :
         (/\ r.method = "GET"
          /\ Has(missed[p], KeyOf(r))
          /\ \A k \in DOMAIN redis_cache[p] : IsEnvelope(redis_cache[p][k])
          /\ MwLookup(p, s, r))
         => /\ task'[p][s] = Idle
            /\ last'[p] = FromMemory(r, missed[p][KeyOf(r)])]_vars

\* C2: on a full miss the caller gets the status and the body that the
\* handler produced.
C2_FullMissTransparent ==
    \A p \in Procs :
        (has_limiter /\ last[p].source = "handler")
        => /\ last[p].out.status_code = last[p].response.status_code
           /\ last[p].out.body = last[p].response.body

\* C3: a GET /items/ reports the items now in db (stated for the requests
\* answered on arrival, in runs without channel messages).
C3_GetItemsCurrent ==
    [][\A p \in Procs, s \in Slots :
         (published = 0 /\ MwLookup(p, s, GetItems) /\ task'[p][s] = Idle)
         => last'[p].out = get_items(db[p])]_vars

\* C4: no step of a request whose method is not GET, HEAD or OPTIONS, and no
\* step of a request whose handler answered with a status other than 200,
\* changes redis_cache or the Redis store.
C4_UncacheableWritesNothing ==
    [][\A p \in Procs, s \in Slots :
         /\ \A r \in Requests :
                (r.method \notin CacheableMethods /\ MwLookup(p, s, r))
                => UNCHANGED <<redis_cache, redis>>
         /\ (/\ task[p][s].pc # "idle"
             /\ task'[p][s] # task[p][s]
             /\ \/ task[p][s].request.method \notin CacheableMethods
                \/ /\ task[p][s].pc = "got_response"
                   /\ task[p][s].response.status_code # 200)
            => UNCHANGED <<redis_cache, redis>>]_vars

\* C4 witness: a GET answered 404 by the handler has completed behind the
\* middleware, and neither tier holds its key.
C4_Witness ==
    /\ has_limiter
    /\ last["p1"].source = "handler"
    /\ last["p1"].request = GetItem1
    /\ last["p1"].response.status_code = 404
    /\ ~Has(redis_cache["p1"], Item1Key)
    /\ redis[Item1Key] = None

\* C5 (as amended): after an evict event for a key has been applied (and
\* nothing was written to redis_cache since), a GET for that key is not
\* answered from redis_cache; it is answered from the Redis store when that
\* still holds the entry stored for the key, and mirrored in redis_cache
\* again; when the Redis store holds nothing for the key it goes on to the
\* handler, and the handler's 200 response is what redis_cache
\* holds for the key afterwards.
C5_GetAfterEvict ==
    [][\A p \in Procs, s \in Slots :
         /\ \A r \in Requests :
                (/\ r.method = "GET"
                 /\ applied[p].text = EvictEvent(KeyOf(r))
                 /\ MwLookup(p, s, r))
                => task'[p][s] = [pc |-> "redis_get", request |-> r]
         /\ (/\ task[p][s].pc = "redis_get"
             /\ task[p][s].request.method = "GET"
             /\ applied[p].text = EvictEvent(KeyOf(task[p][s].request))
             /\ MwRedisGet(p, s))
            => LET k == KeyOf(task[p][s].request)
               IN IF redis[k] = None
                  THEN /\ task'[p][s].pc = "call_next"
                       /\ redis_cache'[p] = redis_cache[p]
                  ELSE IsJson(redis[k])
                       => /\ redis_cache'[p][k] = redis[k].json
                          /\ last'[p].source = "redis"
                          /\ last'[p].out = [status_code |-> redis[k].json.status_code,
                                             body |-> [json |-> redis[k].json.data]]
         /\ (/\ task[p][s].pc = "got_response"
             /\ task[p][s].request.method = "GET"
             /\ task[p][s].response.status_code = 200
             /\ MwStore(p, s))
            => redis_cache'[p][KeyOf(task[p][s].request)]
                   = [data |-> task[p][s].response.body.json, status_code |-> 200]]_vars

\* C5 witness: GET /items/ was cached by a full miss, the evict for its key
\* was applied after that, the Redis entry is gone, and the next GET /items/
\* has passed both tiers and waits for the handler.
C5_Witness ==
    /\ last["p1"].source = "handler"
    /\ last["p1"].request = GetItems
    /\ applied["p1"].text = EvictEvent(ItemsKey)
    /\ redis[ItemsKey] = None
    /\ task["p1"][1] = [pc |-> "call_next", request |-> GetItems, bypass |-> FALSE]

\* C5 (as claimed): after an evict event for a key has been applied (and
\* nothing was written to redis_cache since), a GET for that key is not
\* answered from the Redis tier either: it goes on to the handler.
C5_AsClaimed ==
    [][\A p \in Procs, s \in Slots :
         (/\ task[p][s].pc = "redis_get"
          /\ task[p][s].request.method = "GET"
          /\ applied[p].text = EvictEvent(KeyOf(task[p][s].request))
          /\ MwRedisGet(p, s))
         => task'[p][s].pc = "call_next"]_vars

\* C6: once a request that stored its response on a full miss has completed,
\* a message has been published on the channel.
C6_StorePublishesAdd ==
    \A p \in Procs :
        (/\ has_limiter
         /\ last[p].source = "handler"
         /\ last[p].request.method \in CacheableMethods
         /\ last[p].response.status_code = 200)
        => published > 0

\* C7: no request ends in an error of the caching infrastructure (stated for
\* runs without channel messages; a request whose handler invocation raised
\* is recorded apart, with source "raised").
C7_NoInfrastructureFailure ==
    \A p \in Procs : published = 0 => last[p].source # "error"

\* C8: the subscriber task does not end when its connection drops.
C8_SubscriberSurvivesDrop ==
    \A p \in Procs : sub[p] # "disconnected"

\* C9: a message that is not JSON leaves redis_cache as it is and the
\* subscriber listening.
C9_UndecodableIgnored ==
    [][\A p \in Procs :
         (SubStep(p) /\ ~IsJson(Head(inbox[p]).data))
         => /\ redis_cache'[p] = redis_cache[p]
            /\ sub'[p] = "listening"]_vars

\* C10: an evict for a key that redis_cache does not hold changes nothing; an
\* event applied a second time in a row changes nothing; and an event leaves
\* every key other than its own as it was.
C10_EventsIdempotent ==
    [][\A p \in Procs :
         (SubStep(p) /\ IsJson(Head(inbox[p]).data))
         => LET e == json_loads(Head(inbox[p]).data)
                before == redis_cache[p]
                after == redis_cache'[p]
            IN /\ (e.action = "evict" /\ e.key \notin DOMAIN before) => after = before
               /\ applied[p].text = Head(inbox[p]).data => after = before
               /\ \A k \in (DOMAIN before) \ {e.key} :
                      k \in DOMAIN after /\ after[k] = before[k]
               /\ (DOMAIN after) \subseteq (DOMAIN before) \cup {e.key}]_vars

\* C10 witness: the subscriber has applied the same add event twice in a row,
\* next to another cached key.
C10_Witness ==
    /\ applied["p1"] = [text |-> AddEvent(ItemsKey, ForeignEntry), times |-> 2]
    /\ redis_cache["p1"][ItemsKey] = ForeignEntry
    /\ Has(redis_cache["p1"], Item1Key)

\* The multiset of (name, value) pairs of a query string.
QueryBag(query) ==
    [x \in QueryNames \X QueryValues |-> Cardinality({i \in 1..Len(query) : query[i] = x})]

BothDerived == derived.keys[1] # None /\ derived.keys[2] # None

\* C11: two requests get the same key exactly when they have the same
\* method, the same path and the same multiset of query pairs, in whatever
\* order the pairs are given.
C11_KeyCanonical ==
    BothDerived
    => LET r1 == derived.requests[1]
           r2 == derived.requests[2]
       IN (derived.keys[1] = derived.keys[2])
          <=> (/\ r1.method = r2.method
               /\ r1.path = r2.path
               /\ QueryBag(r1.query) = QueryBag(r2.query))

\* C12: two POST, PUT or PATCH requests with the same method, path and query
\* string and different bodies get different keys in the middleware; for any
\* other method the key does not depend on the body.
C12_BodyInKey ==
    BothDerived
    => LET r1 == derived.requests[1]
           r2 == derived.requests[2]
       IN (r1.method = r2.method /\ r1.path = r2.path /\ r1.query = r2.query)
          => IF r1.method \in {"POST", "PUT", "PATCH"}
             THEN (r1.body # r2.body => derived.keys[1] # derived.keys[2])
             ELSE derived.keys[1] = derived.keys[2]

\* What the handler run by this MwCallNext step of task s of p returned.
Produced(p, s) == IF task[p][s].bypass THEN last'[p].response ELSE task'[p][s].response

C14_ConsecutiveIds ==
    [][\A p \in Procs, s \in Slots :
         (/\ task[p][s].pc = "call_next"
          /\ task[p][s].request.method = "POST"
          /\ MwCallNext(p, s))
         => LET k == Cardinality(DOMAIN db[p]) + 1
                name == task[p][s].request.body
            IN /\ IF \E i \in DOMAIN db[p] : db[p][i] = name
                  THEN /\ Produced(p, s).status_code = 400
                       /\ db'[p] = db[p]
                       /\ next_item_id'[p] = next_item_id[p]
                  ELSE /\ Produced(p, s).status_code = 201
                       /\ Produced(p, s).body.json.item_id = k
                       /\ k \notin DOMAIN db[p]
                       /\ db'[p] = Put(db[p], k, name)
                       /\ next_item_id'[p] = k + 1
               /\ \A i \in DOMAIN db'[p] : i >= 1 /\ i < next_item_id'[p]]_vars

\* C14 witness: two POSTs for different names ran while both requests were in
\* flight; they were answered 201 with item_id 1 and item_id 2.
C14_Witness ==
    /\ task["p1"][1].pc = "got_response"
    /\ task["p1"][2].pc = "got_response"
    /\ task["p1"][1].response.status_code = 201
    /\ task["p1"][2].response.status_code = 201
    /\ {task["p1"][1].response.body.json.item_id, task["p1"][2].response.body.json.item_id} = {1, 2}
    /\ db["p1"] = [i \in {1, 2} |-> IF task["p1"][1].response.body.json.item_id = i
                                    THEN task["p1"][1].request.body
                                    ELSE task["p1"][2].request.body]
    /\ next_item_id["p1"] = 3

\* C15: a request that misses redis_cache and finds an entry for its key in
\* the Redis store leaves that entry in redis_cache and is answered with the
\* entry's status and payload, and no handler runs (db and next_item_id stay
\* as they were); and when the same request arrives next at that process,
\* with no channel event for the key applied in between, it is answered from
\* redis_cache.
C15_DistributedHitMirrors ==
    [][\A p \in Procs, s \in Slots :
         /\ (/\ task[p][s].pc = "redis_get"
             /\ redis[KeyOf(task[p][s].request)] # None
             /\ IsJson(redis[KeyOf(task[p][s].request)])
             /\ MwRedisGet(p, s))
            => LET k == KeyOf(task[p][s].request)
                   entry == redis[k].json
               IN /\ redis_cache'[p] = Put(redis_cache[p], k, entry)
                  /\ task'[p][s] = Idle
                  /\ last'[p] = [request |-> task[p][s].request, source |-> "redis",
                                 response |-> None,
                                 out |-> [status_code |-> entry.status_code,
                                          body |-> [json |-> entry.data]]]
                  /\ UNCHANGED <<db, next_item_id, redis>>
         /\ \A r \in Requests :
                (/\ last[p].source = "redis"
                 /\ last[p].request = r
                 /\ Has(fresh[p], KeyOf(r))
                 /\ MwLookup(p, s, r))
                => /\ task'[p][s] = Idle
                   /\ last'[p] = FromMemory(r, fresh[p][KeyOf(r)])
                   /\ UNCHANGED <<db, next_item_id, redis_cache, redis>>]_vars

\* C15 witness: p2 created an item, p1 then cached GET /items/ (count 0), and
\* p2, whose own db holds one item, answered GET /items/ from the Redis store
\* with p1's payload and mirrored it.
C15_Witness ==
    /\ last["p1"].source = "handler"
    /\ last["p1"].request = GetItems
    /\ Cardinality(DOMAIN db["p2"]) = 1
    /\ last["p2"].source = "redis"
    /\ last["p2"].request = GetItems
    /\ last["p2"].out = get_items(EmptyDict)
    /\ redis_cache["p2"][ItemsKey] = redis_cache["p1"][ItemsKey]

\* C16: when call_next raises, that step changes neither redis_cache nor the
\* Redis store and the caller gets the error as custom_exception_handler
\* reports it; and no step that brought the request to call_next (the lookup
\* that missed, the Redis get that missed) changed either tier.
C16_HandlerFailureNotCached ==
    [][\A p \in Procs, s \in Slots :
         /\ (task'[p][s] # task[p][s] /\ task'[p][s].pc \in {"redis_get", "call_next"})
            => UNCHANGED <<redis_cache, redis>>
         /\ (task[p][s].pc = "call_next" /\ MwCallNextFails(p, s))
            => /\ UNCHANGED <<redis_cache, redis>>
               /\ task'[p][s] = Idle
               /\ last'[p] = [request |-> task[p][s].request, source |-> "raised",
                              response |-> None, out |-> ServerError]]_vars

\* C16 witness: a GET /items/ that missed both tiers ended with call_next
\* raising, and neither tier holds its key.
C16_Witness ==
    /\ has_limiter
    /\ last["p1"].source = "raised"
    /\ last["p1"].request = GetItems
    /\ ~Has(redis_cache["p1"], ItemsKey)
    /\ redis[ItemsKey] = None

\* C17: a key leaves redis_cache only in a subscriber step that applies an
\* evict event for that key; the expiry of a key in the Redis store leaves
\* every redis_cache as it was; and a GET whose key the middleware has put in
\* redis_cache (no event for the key applied since) is answered from
\* redis_cache when the Redis store no longer holds the key.
C17_OnlyEvictRemoves ==
    [][\A p \in Procs :
         /\ \A k \in DOMAIN redis_cache[p] :
                k \notin DOMAIN redis_cache'[p]
                => (SubStep(p) /\ Head(inbox[p]).data = EvictEvent(k))
         /\ \A k \in CacheKeys : Expire(k) => UNCHANGED redis_cache
         /\ \A s \in Slots, r \in Requests :
                (/\ r.method = "GET"
                 /\ Has(fresh[p], KeyOf(r))
                 /\ redis[KeyOf(r)] = None
                 /\ MwLookup(p, s, r))
                => /\ task'[p][s] = Idle
                   /\ last'[p] = FromMemory(r, fresh[p][KeyOf(r)])]_vars

\* C17 witness: GET /items/ was stored in both tiers by a full miss, the
\* Redis entry has expired, redis_cache still holds the entry and the last
\* GET /items/ was answered from it.
C17_Witness ==
    /\ Has(missed["p1"], ItemsKey)
    /\ redis[ItemsKey] = None
    /\ Has(redis_cache["p1"], ItemsKey)
    /\ redis_cache["p1"][ItemsKey] = missed["p1"][ItemsKey]
    /\ last["p1"] = FromMemory(GetItems, missed["p1"][ItemsKey])

\* C18: a request that finds under its key in the Redis store a text that is
\* no JSON document goes on to the handler as on a miss, and redis_cache stays
\* as it was.
C18_UndecodableIsMiss ==
    [][\A p \in Procs, s \in Slots :
         (/\ task[p][s].pc = "redis_get"
          /\ redis[KeyOf(task[p][s].request)] # None
          /\ ~IsJson(redis[KeyOf(task[p][s].request)])
          /\ MwRedisGet(p, s))
         => /\ redis_cache'[p] = redis_cache[p]
            /\ task'[p][s] = [pc |-> "call_next", request |-> task[p][s].request,
                              bypass |-> FALSE]]_vars

\* C19: every entry of every redis_cache is an envelope with a data field and
\* an integer status_code field.
C19_EntriesWellFormed ==
    \A p \in Procs : \A k \in DOMAIN redis_cache[p] :
        /\ IsEnvelope(redis_cache[p][k])
        /\ redis_cache[p][k].status_code \in Int

\* C20: a request that held its handler's response, not yet stored, when an
\* evict event for its key was applied does not put that response into
\* redis_cache.
C20_NoStaleReinstall ==
    [][\A p \in Procs, s \in Slots :
         (s \in stale[p] /\ MwStore(p, s))
         => ~(/\ Has(redis_cache'[p], KeyOf(task[p][s].request))
              /\ redis_cache'[p][KeyOf(task[p][s].request)] = CacheEntryOf(task[p][s].response))]_vars
====
